---- MODULE Spec2Model ----
(***************************************************************************)
(* Elastic IP service of cluster-api-provider-aws                          *)
(* (pkg/cloud/services/network/eip/eips.go): allocation with reuse and     *)
(* BYO public IPv4 pool, disassociation and release of addresses.          *)
(*                                                                         *)
(* Every call the service makes to the EC2 API is one step of the model;   *)
(* the answer of the API is chosen among the answers the provider can give *)
(* in its current state.                                                   *)
(***************************************************************************)
EXTENDS Integers, Sequences, FiniteSets, TLC

VARIABLES addresses, nextId, poolFree, vpc, callers, call, hist

vars == <<addresses, nextId, poolFree, vpc, callers, call, hist>>

(***************************************************************************)
(* Bounds of the model.                                                    *)
(***************************************************************************)
\* addresses that exist at the provider before the first call
InitAddrs == 1
\* addresses the provider accepts to mint on top of them (address limit)
MaxNew == 2
\* largest count asked to GetOrAllocateAddresses
MaxNum == 2
\* free addresses of the BYO pool at the start
MaxFree == 1
\* attempts the retrying waiter makes (Steps of wait.NewBackoff)
BackoffSteps == 2

Callers == {1, 2}

Nil == "nil"

\* s.Name(): the cluster the service is configured for
ClusterName == "c1"
Clusters == {"c1", "c2"}
\* instances whose address the instance service reconciles
Instances == {"i-1"}

\* fmt.Sprintf("ec2-%s", instanceID): the role of the address of an instance
InstanceRole(instanceID) == "ec2-" \o instanceID

\* role strings given to the operations; "" is the empty role
Roles == {"", "A"} \cup {InstanceRole(i) : i \in Instances}
\* roles of the addresses that exist before the first call
InitRoles == {"A"}

\* the configured BYO pool id, and the two fallback orders of the API
PoolId == "ipv4pool-ec2-1"
PublicIpv4PoolFallbackOrderNone == "none"
PublicIpv4PoolFallbackOrderAmazonPool == "amazon-pool"

\* error codes of the provider the service tells apart
AuthFailure == "AuthFailure"
InUseIPAddress == "InvalidIPAddress.InUse"
AssociationIDNotFound == "InvalidAssociationID.NotFound"
\* any other error code of the provider
InternalError == "InternalError"

(***************************************************************************)
(* Helpers on sets and sequences.                                          *)
(***************************************************************************)
Min(S) == CHOOSE x \in S : \A y \in S : x <= y

RECURSIVE SortedSeq(_)
SortedSeq(S) == IF S = {} THEN <<>>
                ELSE <<Min(S)>> \o SortedSeq(S \ {Min(S)})

Range(s) == {s[k] : k \in 1..Len(s)}

(***************************************************************************)
(* Filters and tags.                                                       *)
(***************************************************************************)
\* filter.EC2.Cluster(name)
Cluster(name) == [Name |-> "cluster", Value |-> name]

\* filter.EC2.ProviderRole(role)
ProviderRole(role) == [Name |-> "role", Value |-> role]

\* tags that leave out the role of the call
getEIPTagParams_NoRole(role) == [ClusterName |-> ClusterName, Role |-> ""]


\* the tags an address is created with
getEIPTagParams(role) == [ClusterName |-> ClusterName, Role |-> role]

\* whether an address of the provider satisfies every filter of a request
Matches(a, filters) ==
    \A f \in filters :
        \/ f.Name = "cluster" /\ a.cluster = f.Value
        \/ f.Name = "role" /\ a.role = f.Value

\* DescribeAddresses: the matching addresses as the provider lists them
DescribeAddressesOutput(filters) ==
    LET ids == {id \in DOMAIN addresses : Matches(addresses[id], filters)}
        s == SortedSeq(ids)
    IN [k \in 1..Len(s) |->
           [AllocationId |-> s[k],
            AssociationId |-> addresses[s[k]].assoc,
            cluster |-> addresses[s[k]].cluster,
            role |-> addresses[s[k]].role]]

\* describeAddresses that forgets the role filter
describeAddressesFilters_NoRole(role) == {Cluster(ClusterName)}

\* the filters describeAddresses(role) sends
describeAddressesFilters(role) ==
    IF role # "" THEN {Cluster(ClusterName), ProviderRole(role)}
    ELSE {Cluster(ClusterName)}

(***************************************************************************)
(* Local state of a caller.                                                *)
(***************************************************************************)
NoAlloc == [PublicIpv4Pool |-> Nil, Tags |-> getEIPTagParams("")]

\* the elbv2.CreateLoadBalancerInput of a caller that creates no load balancer
NoInput == [Type |-> Nil, Subnets |-> <<>>, SubnetMappings |-> <<>>]

\* consumer: the helper that called GetOrAllocateAddresses (Nil: none), with
\* its instance or its load balancer input, and ret, the error it returns
Idle == [pc |-> "idle", op |-> Nil, num |-> 0, role |-> "",
         out |-> <<>>, i |-> 0, eips |-> <<>>, alloc |-> NoAlloc,
         relStep |-> 0, disStep |-> 0, relErr |-> Nil, err |-> Nil,
         consumer |-> Nil, instance |-> Nil, input |-> NoInput, ret |-> Nil]

\* what is recorded of the requests of a call: the filters of its describe
\* request, the pool and allocate requests (log), the addresses a
\* disassociate or release request named (touched), the addresses released,
\* and of the release of the current address: the number of requests, the
\* answer to the first disassociate request, the answer to the latest release
\* request and the number of disassociate requests since then
NoRequests == [calls |-> 0, firstDis |-> Nil, lastRel |-> Nil, disSince |-> 0]

\* what is kept of a sequence of calls with the same arguments: the number
\* of addresses of the role, associated and not, before its first call,
\* whether a call came before, and the result of the previous call
NoSeq == [assoc0 |-> 0, free0 |-> 0, again |-> FALSE, round |-> 0,
          prevErr |-> Nil, prevEips |-> <<>>]

\* racing: the callers that held an unassociated address in their list when
\* the describe request of the call was answered
NoHist == [filters |-> {}, log |-> <<>>, touched |-> {}, released |-> <<>>,
           cur |-> NoRequests, seq |-> NoSeq, racing |-> {}]

IsIdle(c) == c \in callers /\ call[c].pc = "idle"

Log(c, entry) == [hist[c] EXCEPT !.log = Append(@, entry)]

(***************************************************************************)
(* Initial states.                                                         *)
(***************************************************************************)
MaxIds == InitAddrs + MaxNew

\* the addresses that may exist before the first call: of this cluster or
\* of another one, associated or not (the other roles come with the calls)
InitShapes == [cluster : Clusters, role : InitRoles, associated : BOOLEAN]

\* a network without BYO pool
NoByoPool == [PublicIpv4Pool |-> Nil, PublicIpv4PoolFallBackOrder |-> Nil]

VpcSpecs ==
    {NoByoPool} \cup
    [PublicIpv4Pool : {PoolId},
     PublicIpv4PoolFallBackOrder :
         {Nil, PublicIpv4PoolFallbackOrderNone, PublicIpv4PoolFallbackOrderAmazonPool}]

\* at most max addresses exist, the callers are cs, the network is of vpcs
InitUpTo(max, cs, vpcs) ==
    /\ \E n \in 0..max : \E f \in [1..n -> InitShapes] :
          /\ addresses = [id \in 1..n |->
                [cluster |-> f[id].cluster, role |-> f[id].role,
                 assoc |-> IF f[id].associated THEN id ELSE 0,
                 pool |-> Nil]]
          /\ nextId = n + 1
    /\ vpc \in vpcs
    /\ poolFree \in (IF vpc.PublicIpv4Pool = Nil THEN {0} ELSE 0..MaxFree)
    /\ callers = cs
    /\ call = [c \in Callers |-> Idle]
    /\ hist = [c \in Callers |-> NoHist]

InitWith(cs, vpcs) == InitUpTo(InitAddrs, cs, vpcs)

\* one caller, any network configuration
Init == InitWith({1}, VpcSpecs)

\* one caller, no BYO pool
InitNoByoPool == InitWith({1}, {NoByoPool})

(***************************************************************************)
(* Pool policy: publicIpv4PoolHasFreeIPs and setByoPublicIpv4.             *)
(***************************************************************************)
\* the answers DescribePublicIpv4Pools can give
DescribePublicIpv4PoolsAnswers ==
    {[err |-> TRUE, PublicIpv4Pools |-> <<>>],
     [err |-> FALSE, PublicIpv4Pools |-> <<>>],
     [err |-> FALSE, PublicIpv4Pools |-> <<poolFree>>],
     [err |-> FALSE, PublicIpv4Pools |-> <<poolFree, poolFree>>]}

publicIpv4PoolHasFreeIPs(want, pools) ==
    IF pools.err
    THEN [ok |-> FALSE, err |-> "failed to describe Public IPv4 Pool"]
    ELSE IF Len(pools.PublicIpv4Pools) # 1
    THEN [ok |-> FALSE, err |-> "unexpected number of Public IPv4 Pools"]
    ELSE IF pools.PublicIpv4Pools[1] < want
    THEN [ok |-> FALSE, err |-> "the pool does not have requested size"]
    ELSE [ok |-> TRUE, err |-> Nil]

\* setByoPublicIpv4 that falls back to the default pool whatever the policy
setByoPublicIpv4_AlwaysFallback(alloc, pools) ==
    IF publicIpv4PoolHasFreeIPs(1, pools).ok
    THEN [alloc |-> [alloc EXCEPT !.PublicIpv4Pool = vpc.PublicIpv4Pool],
          err |-> Nil]
    ELSE [alloc |-> alloc, err |-> Nil]

\* setByoPublicIpv4 that leaves the allocate request without pool
setByoPublicIpv4_DefaultPool(alloc, pools) ==
    IF publicIpv4PoolHasFreeIPs(1, pools).err # Nil
    THEN [alloc |-> alloc,
          err |-> "failed to allocate Elastic IP from PublicIpv4 Pool"]
    ELSE [alloc |-> alloc, err |-> Nil]


\* the part of setByoPublicIpv4 that follows the capacity query
setByoPublicIpv4(alloc, pools) ==
    LET r == publicIpv4PoolHasFreeIPs(1, pools) IN
    IF r.err # Nil
    THEN [alloc |-> alloc,
          err |-> "failed to allocate Elastic IP from PublicIpv4 Pool"]
    ELSE IF r.ok
    THEN [alloc |-> [alloc EXCEPT !.PublicIpv4Pool = vpc.PublicIpv4Pool],
          err |-> Nil]
    ELSE IF /\ vpc.PublicIpv4PoolFallBackOrder # Nil
            /\ vpc.PublicIpv4PoolFallBackOrder = PublicIpv4PoolFallbackOrderNone
    THEN [alloc |-> alloc,
          err |-> "failed to allocate Elastic IP from PublicIpv4 Pool and use fallback with strategy none"]
    ELSE [alloc |-> alloc, err |-> Nil]

(***************************************************************************)
(* GetOrAllocateAddresses.                                                 *)
(***************************************************************************)
\* a reuse loop that reuses nothing
Reusable_Nothing(out) == <<>>


\* the reuse loop without the test "address.AssociationId == nil"
Reusable_Associated(out) == [k \in 1..Len(out) |-> out[k].AllocationId]


\* the reuse loop with the test on the association id inverted
Reusable_Inverted(out) ==
    LET F[k \in 0..Len(out)] ==
            IF k = 0 THEN <<>>
            ELSE IF out[k].AssociationId # 0
                 THEN Append(F[k - 1], out[k].AllocationId)
                 ELSE F[k - 1]
    IN F[Len(out)]


\* the ids of the listed addresses that carry no association id
Reusable(out) ==
    LET F[k \in 0..Len(out)] ==
            IF k = 0 THEN <<>>
            ELSE IF out[k].AssociationId = 0
                 THEN Append(F[k - 1], out[k].AllocationId)
                 ELSE F[k - 1]
    IN F[Len(out)]

\* the loop with "<=" for "<"
AllocLoop_OffByOne(l, eips) ==
    IF Len(eips) <= l.num
    THEN [l EXCEPT !.eips = eips, !.pc = "allocateAddress",
                   !.alloc = [PublicIpv4Pool |-> Nil,
                              Tags |-> getEIPTagParams(l.role)]]
    ELSE [l EXCEPT !.eips = eips, !.pc = "done", !.err = Nil]

\* the loop that allocates once at most
AllocLoop_Once(l, eips) ==
    IF Len(eips) < l.num /\ Len(eips) < 1
    THEN [l EXCEPT !.eips = eips, !.pc = "allocateAddress",
                   !.alloc = [PublicIpv4Pool |-> Nil,
                              Tags |-> getEIPTagParams(l.role)]]
    ELSE [l EXCEPT !.eips = eips, !.pc = "done", !.err = Nil]


\* a loop that keeps the pool selection of the previous allocation instead
\* of resolving it again
AllocLoop_KeepSelection(l, eips) ==
    IF Len(eips) < l.num
    THEN IF l.pc = "AllocateAddressWithContext"
         THEN [l EXCEPT !.eips = eips]
         ELSE [l EXCEPT !.eips = eips, !.pc = "allocateAddress",
                        !.alloc = [PublicIpv4Pool |-> Nil,
                                   Tags |-> getEIPTagParams(l.role)]]
    ELSE [l EXCEPT !.eips = eips, !.pc = "done", !.err = Nil]


\* the loop "for len(eips) < num": allocate once more, or return eips
AllocLoop(l, eips) ==
    IF Len(eips) < l.num
    THEN [l EXCEPT !.eips = eips, !.pc = "allocateAddress",
                   !.alloc = [PublicIpv4Pool |-> Nil,
                              Tags |-> getEIPTagParams(l.role)]]
    ELSE [l EXCEPT !.eips = eips, !.pc = "done", !.err = Nil]

\* "return nil, err" that hands back the ids gathered so far
FailWith_KeepPartial(l, err) == [l EXCEPT !.pc = "done", !.err = err]

\* return nil, err
FailWith(l, err) == [l EXCEPT !.eips = <<>>, !.pc = "done", !.err = err]

\* the callers other than c whose list holds an address that exists and is
\* not associated
Racing(c) ==
    {e \in callers \ {c} :
        \E id \in Range(call[e].eips) \cap DOMAIN addresses :
            addresses[id].assoc = 0}

\* the addresses of the cluster tagged with role
OfRole(role) ==
    {id \in DOMAIN addresses :
        addresses[id].cluster = ClusterName /\ addresses[id].role = role}

\* the first call of a sequence of calls with role
StartSeq(role) ==
    [NoSeq EXCEPT
        !.assoc0 = Cardinality({id \in OfRole(role) : addresses[id].assoc # 0}),
        !.free0 = Cardinality({id \in OfRole(role) : addresses[id].assoc = 0})]

\* GetOrAllocateAddresses up to the answer of describeAddresses, for a caller
\* with locals l and history h
getOrAllocateAddresses(c, l0, h, num, role) ==
    /\ LET filters == describeAddressesFilters(role)
           l == [l0 EXCEPT !.op = "GetOrAllocateAddresses",
                           !.num = num, !.role = role]
       IN \/ /\ hist' = [hist EXCEPT ![c] = [h EXCEPT !.filters = filters]]
             /\ call' = [call EXCEPT ![c] = FailWith(l, "failed to query addresses")]
          \/ LET out == DescribeAddressesOutput(filters)
             IN /\ hist' = [hist EXCEPT ![c] =
                      [h EXCEPT !.filters = filters, !.racing = Racing(c)]]
                /\ call' = [call EXCEPT ![c] =
                               AllocLoop([l EXCEPT !.out = out], Reusable(out))]
    /\ UNCHANGED <<addresses, nextId, poolFree, vpc, callers>>

\* GetOrAllocateAddresses called on its own
GetOrAllocateAddresses(c, num, role) ==
    /\ IsIdle(c)
    /\ getOrAllocateAddresses(c, Idle, [NoHist EXCEPT !.seq = StartSeq(role)],
                              num, role)

\* the caller took the result of GetOrAllocateAddresses(num, role) and calls
\* it again with the same arguments
GetOrAllocateAddresses_Again(c) ==
    /\ c \in callers
    /\ call[c].pc = "done"
    /\ call[c].op = "GetOrAllocateAddresses"
    /\ call[c].consumer = Nil
    /\ getOrAllocateAddresses(c, Idle,
          [NoHist EXCEPT !.seq = [hist[c].seq EXCEPT
                                     !.again = TRUE,
                                     !.prevErr = call[c].err,
                                     !.prevEips = call[c].eips]],
          call[c].num, call[c].role)


\* allocateAddress up to the answer of the capacity query of setByoPublicIpv4
SetByoPublicIpv4(c) ==
    /\ c \in callers
    /\ call[c].pc = "allocateAddress"
    /\ IF vpc.PublicIpv4Pool = Nil
       THEN /\ call' = [call EXCEPT ![c].pc = "AllocateAddressWithContext"]
            /\ UNCHANGED hist
       ELSE \E pools \in DescribePublicIpv4PoolsAnswers :
               LET r == setByoPublicIpv4(call[c].alloc, pools)
               IN /\ hist' = [hist EXCEPT ![c] =
                        Log(c, [call |-> "DescribePublicIpv4Pools",
                                pools |-> pools])]
                  /\ call' = [call EXCEPT ![c] =
                        IF r.err # Nil THEN FailWith(@, r.err)
                        ELSE [@ EXCEPT !.alloc = r.alloc,
                                       !.pc = "AllocateAddressWithContext"]]
    /\ UNCHANGED <<addresses, nextId, poolFree, vpc, callers>>

\* whether the provider can mint an address for the request
CanAllocate(alloc) ==
    /\ nextId <= MaxIds
    /\ alloc.PublicIpv4Pool # Nil => poolFree > 0

\* an allocation that, when the provider refuses it, releases the addresses
\* gathered so far
AllocateAddress_Rollback(c) ==
    /\ c \in callers
    /\ call[c].pc = "AllocateAddressWithContext"
    /\ LET alloc == call[c].alloc IN
       \/ /\ CanAllocate(alloc)
          /\ addresses' = (nextId :> [cluster |-> alloc.Tags.ClusterName,
                                      role |-> alloc.Tags.Role,
                                      assoc |-> 0,
                                      pool |-> alloc.PublicIpv4Pool]) @@ addresses
          /\ nextId' = nextId + 1
          /\ poolFree' = IF alloc.PublicIpv4Pool # Nil THEN poolFree - 1 ELSE poolFree
          /\ hist' = [hist EXCEPT ![c] =
                Log(c, [call |-> "AllocateAddress", alloc |-> alloc,
                        AllocationId |-> nextId])]
          /\ call' = [call EXCEPT ![c] = AllocLoop(@, Append(@.eips, nextId))]
       \/ /\ hist' = [hist EXCEPT ![c] =
                Log(c, [call |-> "AllocateAddress", alloc |-> alloc,
                        AllocationId |-> 0])]
          /\ call' = [call EXCEPT ![c] = FailWith(@, "failed to allocate Elastic IP")]
          /\ addresses' = [id \in DOMAIN addresses \ Range(call[c].eips) |->
                              addresses[id]]
          /\ UNCHANGED <<nextId, poolFree>>
    /\ UNCHANGED <<vpc, callers>>


\* the AllocateAddress request of allocateAddress and what follows its answer
AllocateAddress(c) ==
    /\ c \in callers
    /\ call[c].pc = "AllocateAddressWithContext"
    /\ LET alloc == call[c].alloc IN
       \/ /\ CanAllocate(alloc)
          /\ addresses' = (nextId :> [cluster |-> alloc.Tags.ClusterName,
                                      role |-> alloc.Tags.Role,
                                      assoc |-> 0,
                                      pool |-> alloc.PublicIpv4Pool]) @@ addresses
          /\ nextId' = nextId + 1
          /\ poolFree' = IF alloc.PublicIpv4Pool # Nil THEN poolFree - 1 ELSE poolFree
          /\ hist' = [hist EXCEPT ![c] =
                Log(c, [call |-> "AllocateAddress", alloc |-> alloc,
                        AllocationId |-> nextId])]
          /\ call' = [call EXCEPT ![c] = AllocLoop(@, Append(@.eips, nextId))]
       \/ /\ hist' = [hist EXCEPT ![c] =
                Log(c, [call |-> "AllocateAddress", alloc |-> alloc,
                        AllocationId |-> 0])]
          /\ call' = [call EXCEPT ![c] = FailWith(@, "failed to allocate Elastic IP")]
          /\ UNCHANGED <<addresses, nextId, poolFree>>
    /\ UNCHANGED <<vpc, callers>>

(***************************************************************************)
(* The consumers of GetOrAllocateAddresses: the instance service           *)
(* (getAndAssociateAddressesToInstance) and the load balancer service      *)
(* (allocatedPublicIpv4AddressFromByoIPPool).                              *)
(***************************************************************************)
\* errors.Wrapf(err, message) of github.com/pkg/errors: nil for a nil err
Wrapf(err, message) == IF err = Nil THEN Nil ELSE message

\* the consumer returns err
ReturnWith(l, err) == [l EXCEPT !.pc = "returned", !.ret = err]

\* ReconcileElasticIPFromPublicPool(instance) up to the answer of the
\* describe request of GetOrAllocateAddresses(1, "ec2-<id>")
ReconcileElasticIPFromPublicPool(c, instanceID) ==
    /\ IsIdle(c)
    /\ getOrAllocateAddresses(c,
          [Idle EXCEPT !.consumer = "getAndAssociateAddressesToInstance",
                       !.instance = instanceID],
          [NoHist EXCEPT !.seq = StartSeq(InstanceRole(instanceID))],
          1, InstanceRole(instanceID))

\* the caller took the result of ReconcileElasticIPFromPublicPool and calls
\* it again for the same instance; prevErr keeps the first error of the
\* calls before, prevEips the list the previous call was handed
ReconcileElasticIPFromPublicPool_Again(c) ==
    /\ c \in callers
    /\ call[c].pc = "returned"
    /\ call[c].consumer = "getAndAssociateAddressesToInstance"
    /\ getOrAllocateAddresses(c,
          [Idle EXCEPT !.consumer = "getAndAssociateAddressesToInstance",
                       !.instance = call[c].instance],
          [NoHist EXCEPT !.seq = [hist[c].seq EXCEPT
                                     !.again = TRUE,
                                     !.prevErr = IF @ # Nil THEN @
                                                 ELSE call[c].ret,
                                     !.prevEips = call[c].eips]],
          1, InstanceRole(call[c].instance))


\* getAndAssociateAddressesToInstance from the return of
\* GetOrAllocateAddresses up to the associate request
getAndAssociateAddressesToInstance(c) ==
    /\ c \in callers
    /\ call[c].pc = "done"
    /\ call[c].consumer = "getAndAssociateAddressesToInstance"
    /\ call' = [call EXCEPT ![c] =
          IF @.err # Nil THEN ReturnWith(@, @.err)
          ELSE IF Len(@.eips) # 1
          THEN ReturnWith(@, Wrapf(@.err, "unexpected number of Elastic IP to instance"))
          ELSE [@ EXCEPT !.pc = "AssociateAddressWithContext"]]
    /\ UNCHANGED <<addresses, nextId, poolFree, vpc, callers, hist>>

\* the answers of the provider to an associate request for address id
AssociateAddressAnswers(id) ==
    IF id \in DOMAIN addresses THEN {"ok", InternalError} ELSE {InternalError}

\* the associate request of getAndAssociateAddressesToInstance and its
\* return
AssociateAddress(c) ==
    /\ c \in callers
    /\ call[c].pc = "AssociateAddressWithContext"
    /\ LET id == call[c].eips[1] IN
       \E answer \in AssociateAddressAnswers(id) :
          /\ hist' = [hist EXCEPT ![c] =
                Log(c, [call |-> "AssociateAddress",
                        InstanceId |-> call[c].instance,
                        AllocationId |-> id, answer |-> answer])]
          /\ IF answer = "ok"
             THEN /\ addresses' = [addresses EXCEPT ![id].assoc = id]
                  /\ call' = [call EXCEPT ![c] = ReturnWith(@, Nil)]
             ELSE /\ call' = [call EXCEPT ![c] =
                        ReturnWith(@, "failed to associate Elastic IP")]
                  /\ UNCHANGED addresses
    /\ UNCHANGED <<nextId, poolFree, vpc, callers>>

LoadBalancerTypeEnumNetwork == "network"

\* the subnets of a load balancer input with n subnets
Subnets(n) == [k \in 1..n |-> k]

\* the load balancer inputs the helper is given
Inputs ==
    [Type : {LoadBalancerTypeEnumNetwork, "application"},
     Subnets : {Subnets(n) : n \in 0..MaxNum},
     SubnetMappings : {<<>>, <<[SubnetId |-> 1, AllocationId |-> Nil]>>}]

\* a helper that lets a load balancer of any type through
ReturnsEarly_AnyType(input) ==
    \/ vpc.PublicIpv4Pool = Nil
    \/ Len(input.SubnetMappings) > 0

\* the helper returns before it calls GetOrAllocateAddresses
ReturnsEarly(input) ==
    \/ vpc.PublicIpv4Pool = Nil
    \/ input.Type # LoadBalancerTypeEnumNetwork
    \/ Len(input.SubnetMappings) > 0

\* allocatedPublicIpv4AddressFromByoIPPool(input, role) up to the answer of
\* the describe request of GetOrAllocateAddresses(len(input.Subnets), role)
allocatedPublicIpv4AddressFromByoIPPool(c, input, role) ==
    /\ IsIdle(c)
    /\ LET l == [Idle EXCEPT
                    !.consumer = "allocatedPublicIpv4AddressFromByoIPPool",
                    !.input = input, !.role = role,
                    !.num = Len(input.Subnets)]
           h == [NoHist EXCEPT !.seq = StartSeq(role)]
       IN IF ReturnsEarly(input)
          THEN /\ call' = [call EXCEPT ![c] =
                     IF vpc.PublicIpv4Pool = Nil THEN ReturnWith(l, Nil)
                     ELSE IF input.Type # LoadBalancerTypeEnumNetwork
                     THEN ReturnWith(l, "custom PublicIpv4Pool is supported only with Network Load Balancer type")
                     ELSE ReturnWith(l, "custom PublicIpv4Pool is mutual exclusive with SubnetMappings")]
               /\ hist' = [hist EXCEPT ![c] = h]
               /\ UNCHANGED <<addresses, nextId, poolFree, vpc, callers>>
          ELSE getOrAllocateAddresses(c, l, h, Len(input.Subnets), role)

\* a helper that pairs the subnets with the ids in reverse order
SubnetMappings_Reversed(subnets, eips) ==
    [k \in 1..Len(subnets) |->
        [SubnetId |-> subnets[k], AllocationId |-> eips[Len(subnets) + 1 - k]]]


\* the subnet mappings the helper builds from eips
SubnetMappings(subnets, eips) ==
    [k \in 1..Len(subnets) |->
        [SubnetId |-> subnets[k], AllocationId |-> eips[k]]]

\* allocatedPublicIpv4AddressFromByoIPPool from the return of
\* GetOrAllocateAddresses to its own return
allocatedPublicIpv4AddressFromByoIPPool_Mappings(c) ==
    /\ c \in callers
    /\ call[c].pc = "done"
    /\ call[c].consumer = "allocatedPublicIpv4AddressFromByoIPPool"
    /\ call' = [call EXCEPT ![c] =
          IF @.err # Nil
          THEN ReturnWith(@, "failed to allocate address from Public IPv4 Pool")
          ELSE IF Len(@.eips) # Len(@.input.Subnets)
          THEN ReturnWith(@, "allocated address mismatch with the subnet count")
          ELSE ReturnWith(
                  [@ EXCEPT !.input.SubnetMappings =
                                @ \o SubnetMappings(call[c].input.Subnets, call[c].eips),
                            !.input.Subnets = <<>>],
                  Nil)]
    /\ UNCHANGED <<addresses, nextId, poolFree, vpc, callers, hist>>


(***************************************************************************)
(* The retrying waiter (wait.WaitForWithRetryable with wait.NewBackoff()). *)
(***************************************************************************)
\* what the waiter does after attempt number step of the operation ended
\* with error code (Nil: the operation reported it is done)
WaitForWithRetryable(step, code, retryable) ==
    IF code = Nil THEN "done"
    ELSE IF code \in retryable /\ step < BackoffSteps THEN "retry"
    ELSE "fail"

(***************************************************************************)
(* The provider's answers to disassociate and release requests.            *)
(***************************************************************************)
Associated(assocId) == \E id \in DOMAIN addresses : addresses[id].assoc = assocId

\* an association that exists is removed by the request ("ok"), or has been
\* removed by someone else when the request arrives (not found)
DisassociateAddressAnswers(assocId) ==
    IF Associated(assocId)
    THEN {"ok", AssociationIDNotFound, AuthFailure, InternalError}
    ELSE {AssociationIDNotFound, AuthFailure, InternalError}

\* the directory once the association is gone
Disassociated(assocId) ==
    [id \in DOMAIN addresses |->
        IF addresses[id].assoc = assocId
        THEN [addresses[id] EXCEPT !.assoc = 0] ELSE addresses[id]]

ReleaseAddressAnswers(id) ==
    IF id \notin DOMAIN addresses THEN {AuthFailure, InternalError}
    ELSE IF addresses[id].assoc # 0 THEN {InUseIPAddress, AuthFailure, InternalError}
    ELSE {"ok", InUseIPAddress, AuthFailure, InternalError}

(***************************************************************************)
(* releaseAddresses, releaseAddress and disassociateAddress.               *)
(***************************************************************************)
\* the error codes the two waiters of the service retry on
disassociateRetryable == {AuthFailure}

\* a waiter of the release request that retries on auth failure only
releaseRetryable_AuthOnly == {AuthFailure}


releaseRetryable == {AuthFailure, InUseIPAddress}

\* whether the callback of disassociateAddress reports success for an answer
disassociateDone(answer) == answer = "ok" \/ answer = AssociationIDNotFound

\* the loop over the listed addresses that stops one address early
ReleaseLoop_SkipLast(l, i) ==
    IF i >= Len(l.out) THEN [l EXCEPT !.i = i, !.pc = "done", !.err = Nil]
    ELSE [l EXCEPT !.i = i, !.relStep = 1, !.disStep = 0, !.relErr = Nil,
                   !.pc = IF l.out[i].AssociationId # 0
                          THEN "DisassociateAddressWithContext"
                          ELSE "ReleaseAddressWithContext"]

\* a release that starts with the release request whatever the record
ReleaseLoop_ReleaseFirst(l, i) ==
    IF i > Len(l.out) THEN [l EXCEPT !.i = i, !.pc = "done", !.err = Nil]
    ELSE [l EXCEPT !.i = i, !.relStep = 1, !.disStep = 0, !.relErr = Nil,
                   !.pc = "ReleaseAddressWithContext"]


\* a loop over the listed addresses that releases none of them
ReleaseLoop_Nothing(l, i) == [l EXCEPT !.i = Len(l.out) + 1, !.pc = "done", !.err = Nil]


\* releaseAddress(out[i]) up to its first request, or the end of the loop
\* "for i := range out.Addresses"
ReleaseLoop(l, i) ==
    IF i > Len(l.out) THEN [l EXCEPT !.i = i, !.pc = "done", !.err = Nil]
    ELSE [l EXCEPT !.i = i, !.relStep = 1, !.disStep = 0, !.relErr = Nil,
                   !.pc = IF l.out[i].AssociationId # 0
                          THEN "DisassociateAddressWithContext"
                          ELSE "ReleaseAddressWithContext"]

\* a bulk release that goes on with the next address after a failed release
ReleaseRetry_GoOn(l, code) ==
    IF WaitForWithRetryable(l.relStep, code, releaseRetryable) = "retry"
    THEN [l EXCEPT !.relStep = @ + 1, !.pc = "ReleaseAddressWithContext"]
    ELSE ReleaseLoop(l, l.i + 1)

\* a waiter that retries without counting its attempts
ReleaseRetry_Forever(l, code) ==
    IF code \in releaseRetryable
    THEN [l EXCEPT !.pc = "ReleaseAddressWithContext"]
    ELSE [l EXCEPT !.pc = "done", !.err = "failed to release ElasticIP"]


\* the waiter of releaseAddress after its callback returned (false, code)
ReleaseRetry(l, code) ==
    IF WaitForWithRetryable(l.relStep, code, releaseRetryable) = "retry"
    THEN [l EXCEPT !.relStep = @ + 1, !.pc = "ReleaseAddressWithContext"]
    ELSE [l EXCEPT !.pc = "done", !.err = "failed to release ElasticIP"]

\* a callback that never disassociates
ReleaseFailed_NoDisassociate(l, code) ==
    ReleaseRetry([l EXCEPT !.relErr = code], code)

\* the callback of releaseAddress after the release request failed with
\* code: disassociateAddress(ip) when ip carries an association id, and
\* "return false, err" to the waiter
ReleaseFailed(l, code) ==
    IF l.out[l.i].AssociationId # 0
    THEN [l EXCEPT !.pc = "disassociateAddress", !.disStep = 1, !.relErr = code]
    ELSE ReleaseRetry([l EXCEPT !.relErr = code], code)

\* releaseAddresses(filters) up to the first request of the first release,
\* for a caller with history h
releaseAddressesFrom(c, h, op, role, filters) ==
    /\ LET l == [Idle EXCEPT !.op = op, !.role = role] IN
       /\ hist' = [hist EXCEPT ![c] = [h EXCEPT !.filters = filters]]
       /\ \/ call' = [call EXCEPT ![c] =
                [l EXCEPT !.pc = "done", !.err = "failed to describe elastic IPs"]]
          \/ call' = [call EXCEPT ![c] =
                ReleaseLoop([l EXCEPT !.out = DescribeAddressesOutput(filters)], 1)]
    /\ UNCHANGED <<addresses, nextId, poolFree, vpc, callers>>

releaseAddresses(c, op, role, filters) ==
    /\ IsIdle(c)
    /\ releaseAddressesFrom(c, NoHist, op, role, filters)

\* a whole-cluster release that sends no filter
ReleaseAddresses_NoFilter(c) ==
    releaseAddresses(c, "ReleaseAddresses", "", {})

ReleaseAddresses(c) ==
    releaseAddresses(c, "ReleaseAddresses", "", {Cluster(ClusterName)})

ReleaseAddressByRole(c, role) ==
    releaseAddresses(c, "ReleaseAddressByRole", role,
                     {Cluster(ClusterName)} \cup {ProviderRole(role)})

\* the caller took the result of ReleaseAddresses and calls it again; the
\* ids released by the calls before are kept in the history, and round tells
\* one invocation from the next
ReleaseAddresses_Again(c) ==
    /\ c \in callers
    /\ call[c].pc = "done"
    /\ call[c].op = "ReleaseAddresses"
    /\ releaseAddressesFrom(c,
          [NoHist EXCEPT !.seq = [hist[c].seq EXCEPT
                                     !.again = TRUE,
                                     !.round = 1 - @,
                                     !.prevErr = call[c].err,
                                     !.prevEips = @ \o hist[c].released]],
          "ReleaseAddresses", "", {Cluster(ClusterName)})

\* ReleaseElasticIP of the instance service
ReleaseElasticIP(c, instanceID) ==
    ReleaseAddressByRole(c, InstanceRole(instanceID))

\* the disassociate request releaseAddress sends first for a record that
\* carries an association id
releaseAddress_Disassociate(c) ==
    /\ c \in callers
    /\ call[c].pc = "DisassociateAddressWithContext"
    /\ LET ip == call[c].out[call[c].i] IN
       \E answer \in DisassociateAddressAnswers(ip.AssociationId) :
          /\ addresses' = IF disassociateDone(answer)
                          THEN Disassociated(ip.AssociationId)
                          ELSE addresses
          /\ hist' = [hist EXCEPT ![c] =
                [hist[c] EXCEPT !.touched = @ \cup {ip.AllocationId},
                                !.cur.calls = @ + 1,
                                !.cur.firstDis = answer,
                                !.cur.disSince = @ + 1]]
          /\ call' = [call EXCEPT ![c] =
                IF answer # "ok"
                THEN [@ EXCEPT !.pc = "done",
                               !.err = "failed to disassociate Elastic IP"]
                ELSE [@ EXCEPT !.pc = "ReleaseAddressWithContext"]]
    /\ UNCHANGED <<nextId, poolFree, vpc, callers>>

\* one attempt of the release request inside the waiter of releaseAddress
releaseAddress_Release(c) ==
    /\ c \in callers
    /\ call[c].pc = "ReleaseAddressWithContext"
    /\ LET ip == call[c].out[call[c].i]
           id == ip.AllocationId
       IN \E answer \in ReleaseAddressAnswers(id) :
          LET h == [hist[c] EXCEPT !.touched = @ \cup {id},
                                   !.cur.calls = @ + 1,
                                   !.cur.lastRel = answer,
                                   !.cur.disSince = 0]
          IN
          IF answer = "ok"
          THEN /\ addresses' = [x \in DOMAIN addresses \ {id} |-> addresses[x]]
               /\ poolFree' = IF addresses[id].pool # Nil THEN poolFree + 1
                              ELSE poolFree
               /\ call' = [call EXCEPT ![c] = ReleaseLoop(@, @.i + 1)]
               /\ hist' = [hist EXCEPT ![c] =
                     [h EXCEPT !.released = Append(@, id),
                               !.cur = IF call[c].i < Len(call[c].out)
                                       THEN NoRequests ELSE @]]
          ELSE /\ call' = [call EXCEPT ![c] = ReleaseFailed(@, answer)]
               /\ hist' = [hist EXCEPT ![c] = h]
               /\ UNCHANGED <<addresses, poolFree>>
    /\ UNCHANGED <<nextId, vpc, callers>>

\* one attempt of the disassociate request inside the waiter of
\* disassociateAddress, called from the callback of releaseAddress
disassociateAddress(c) ==
    /\ c \in callers
    /\ call[c].pc = "disassociateAddress"
    /\ LET ip == call[c].out[call[c].i] IN
       \E answer \in DisassociateAddressAnswers(ip.AssociationId) :
          LET code == IF disassociateDone(answer) THEN Nil ELSE answer
              w == WaitForWithRetryable(call[c].disStep, code, disassociateRetryable)
          IN /\ addresses' = IF disassociateDone(answer)
                          THEN Disassociated(ip.AssociationId)
                             ELSE addresses
             /\ hist' = [hist EXCEPT ![c] =
                   [hist[c] EXCEPT !.touched = @ \cup {ip.AllocationId},
                                   !.cur.calls = @ + 1,
                                   !.cur.disSince = @ + 1]]
             /\ call' = [call EXCEPT ![c] =
                   IF w = "retry" THEN [@ EXCEPT !.disStep = @ + 1]
                   ELSE ReleaseRetry(@, @.relErr)]
    /\ UNCHANGED <<nextId, poolFree, vpc, callers>>

\* the caller takes the result; its locals are dropped
Return(c) ==
    /\ c \in callers
    /\ \/ call[c].pc = "done" /\ call[c].consumer = Nil
       \/ call[c].pc = "returned"
    /\ call' = [call EXCEPT ![c] = Idle]
    /\ hist' = [hist EXCEPT ![c] = NoHist]
    /\ UNCHANGED <<addresses, nextId, poolFree, vpc, callers>>

\* another user of the pool takes addresses from it or gives them back
\* between the requests of the callers
PoolFreeChanges ==
    /\ vpc.PublicIpv4Pool # Nil
    /\ \E free \in 0..MaxFree :
          /\ free # poolFree
          /\ poolFree' = free
    /\ UNCHANGED <<addresses, nextId, vpc, callers, call, hist>>


\* the steps of GetOrAllocateAddresses
NextAlloc ==
    \/ \E c \in Callers, num \in 0..MaxNum, role \in Roles :
          GetOrAllocateAddresses(c, num, role)
    \/ \E c \in Callers : SetByoPublicIpv4(c)
    \/ \E c \in Callers : AllocateAddress(c)
    \/ \E c \in Callers : Return(c)

\* the steps of the two consumers and of GetOrAllocateAddresses
NextConsumers ==
    \/ \E c \in Callers, num \in 0..MaxNum, role \in Roles :
          GetOrAllocateAddresses(c, num, role)
    \/ \E c \in Callers, instanceID \in Instances :
          ReconcileElasticIPFromPublicPool(c, instanceID)
    \/ \E c \in Callers, input \in Inputs, role \in Roles :
          allocatedPublicIpv4AddressFromByoIPPool(c, input, role)
    \/ \E c \in Callers : SetByoPublicIpv4(c)
    \/ \E c \in Callers : AllocateAddress(c)
    \/ \E c \in Callers : getAndAssociateAddressesToInstance(c)
    \/ \E c \in Callers : AssociateAddress(c)
    \/ \E c \in Callers : allocatedPublicIpv4AddressFromByoIPPool_Mappings(c)
    \/ \E c \in Callers : Return(c)


\* the steps of callers that run GetOrAllocateAddresses for an instance and
\* associate the address they were handed
NextRace ==
    \/ \E c \in Callers, instanceID \in Instances :
          ReconcileElasticIPFromPublicPool(c, instanceID)
    \/ \E c \in Callers : SetByoPublicIpv4(c)
    \/ \E c \in Callers : AllocateAddress(c)
    \/ \E c \in Callers : getAndAssociateAddressesToInstance(c)
    \/ \E c \in Callers : AssociateAddress(c)
    \/ \E c \in Callers : Return(c)


\* the steps of a caller that reconciles the address of an instance again
\* and again
NextReconcile ==
    \/ \E c \in Callers, instanceID \in Instances :
          ReconcileElasticIPFromPublicPool(c, instanceID)
    \/ \E c \in Callers : ReconcileElasticIPFromPublicPool_Again(c)
    \/ \E c \in Callers : SetByoPublicIpv4(c)
    \/ \E c \in Callers : AllocateAddress(c)
    \/ \E c \in Callers : getAndAssociateAddressesToInstance(c)
    \/ \E c \in Callers : AssociateAddress(c)
    \/ \E c \in Callers : Return(c)


\* the steps of concurrent callers of GetOrAllocateAddresses for one role
\* while the free count of the pool changes
NextPoolRace ==
    \/ \E c \in Callers, num \in 1..MaxNum :
          GetOrAllocateAddresses(c, num, "A")
    \/ \E c \in Callers : SetByoPublicIpv4(c)
    \/ \E c \in Callers : AllocateAddress(c)
    \/ \E c \in Callers : Return(c)
    \/ PoolFreeChanges


\* the steps of the release operations
NextRelease ==
    \/ \E c \in Callers : ReleaseAddresses(c)
    \/ \E c \in Callers, role \in Roles : ReleaseAddressByRole(c, role)
    \/ \E c \in Callers, instanceID \in Instances : ReleaseElasticIP(c, instanceID)
    \/ \E c \in Callers : releaseAddress_Disassociate(c)
    \/ \E c \in Callers : releaseAddress_Release(c)
    \/ \E c \in Callers : disassociateAddress(c)
    \/ \E c \in Callers : Return(c)


\* the steps of a caller that repeats GetOrAllocateAddresses
NextSeq ==
    \/ \E c \in Callers, num \in 0..MaxNum, role \in Roles :
          GetOrAllocateAddresses(c, num, role)
    \/ \E c \in Callers : GetOrAllocateAddresses_Again(c)
    \/ \E c \in Callers : SetByoPublicIpv4(c)
    \/ \E c \in Callers : AllocateAddress(c)
    \/ \E c \in Callers : Return(c)


\* the steps of a caller that invokes ReleaseAddresses again and again
NextConverge ==
    \/ \E c \in Callers : ReleaseAddresses(c)
    \/ \E c \in Callers : ReleaseAddresses_Again(c)
    \/ \E c \in Callers : releaseAddress_Disassociate(c)
    \/ \E c \in Callers : releaseAddress_Release(c)
    \/ \E c \in Callers : disassociateAddress(c)


Next ==
    \/ \E c \in Callers, num \in 0..MaxNum, role \in Roles :
          GetOrAllocateAddresses(c, num, role)
    \/ \E c \in Callers : SetByoPublicIpv4(c)
    \/ \E c \in Callers : AllocateAddress(c)
    \/ \E c \in Callers : ReleaseAddresses(c)
    \/ \E c \in Callers, role \in Roles : ReleaseAddressByRole(c, role)
    \/ \E c \in Callers, instanceID \in Instances : ReleaseElasticIP(c, instanceID)
    \/ \E c \in Callers : releaseAddress_Disassociate(c)
    \/ \E c \in Callers : releaseAddress_Release(c)
    \/ \E c \in Callers : disassociateAddress(c)
    \/ \E c \in Callers : Return(c)

\* every operation of one caller, under any network configuration
Spec == Init /\ [][Next]_vars

\* allocation alone, under any network configuration
SpecAlloc == Init /\ [][NextAlloc]_vars

\* every operation of one caller, for a network without BYO pool (the
\* release operations read nothing of the network configuration)
SpecRelease == InitNoByoPool /\ [][Next]_vars

\* the consumers of one caller, under any network configuration
SpecConsumers == Init /\ [][NextConsumers]_vars


\* two callers without BYO pool
InitTwoCallers == InitWith({1, 2}, {NoByoPool})

\* two concurrent callers of GetOrAllocateAddresses
SpecRace == InitTwoCallers /\ [][NextRace]_vars


\* the release operations of one caller; the requests of releaseAddress are
\* synchronous and blocking, so a release that has a next request sends it
SpecReleaseFair ==
    /\ InitNoByoPool
    /\ [][NextRelease]_vars
    /\ \A c \in Callers :
          /\ WF_vars(releaseAddress_Disassociate(c))
          /\ WF_vars(releaseAddress_Release(c))
          /\ WF_vars(disassociateAddress(c))


\* one caller that repeats GetOrAllocateAddresses, under any network
\* configuration; nothing else associates or releases addresses
SpecSeq == Init /\ [][NextSeq]_vars


\* successive calls of ReconcileElasticIPFromPublicPool by one caller
SpecReconcile == Init /\ [][NextReconcile]_vars


\* two callers of a network with a BYO pool and fallback order none; every
\* address is created by the callers
InitByoPool ==
    InitUpTo(0, {1, 2},
             {v \in VpcSpecs :
                 /\ v.PublicIpv4Pool # Nil
                 /\ v.PublicIpv4PoolFallBackOrder = PublicIpv4PoolFallbackOrderNone})

\* two concurrent callers of GetOrAllocateAddresses and a pool whose free
\* count changes under them
SpecPoolRace == InitByoPool /\ [][NextPoolRace]_vars


\* one caller, no BYO pool, one address more than in the other specifications
InitTeardown == InitUpTo(InitAddrs + 1, {1}, {NoByoPool})

\* one caller that invokes ReleaseAddresses again and again, each time it
\* has returned; nothing else creates or associates addresses
SpecConverge ==
    /\ InitTeardown
    /\ [][NextConverge]_vars
    /\ \A c \in Callers :
          /\ WF_vars(ReleaseAddresses(c))
          /\ WF_vars(ReleaseAddresses_Again(c))
          /\ WF_vars(releaseAddress_Disassociate(c))
          /\ WF_vars(releaseAddress_Release(c))
          /\ WF_vars(disassociateAddress(c))


(***************************************************************************)
(* Properties.                                                             *)
(***************************************************************************)
Done(c) == call[c].pc = "done"

\* GetOrAllocateAddresses has returned its list without error
GoaOk(c) == Done(c) /\ call[c].op = "GetOrAllocateAddresses" /\ call[c].err = Nil

IsRelease(c) == call[c].op \in {"ReleaseAddresses", "ReleaseAddressByRole"}

\* the bulk release has returned without error
ReleaseOk(c) == Done(c) /\ IsRelease(c) /\ call[c].err = Nil

\* the ids of the first n listed addresses
ListedIds(c, n) ==
    {call[c].out[k].AllocationId :
        k \in {j \in 1..Len(call[c].out) : j <= n}}

AllListed(c) == ListedIds(c, Len(call[c].out))

\* the listed addresses that carry no association id
ListedFree(c) ==
    {call[c].out[k].AllocationId :
        k \in {j \in 1..Len(call[c].out) : call[c].out[j].AssociationId = 0}}

\* the allocate requests of the call, and the ids the provider minted for it
AllocRequests(c) ==
    SelectSeq(hist[c].log, LAMBDA e : e.call = "AllocateAddress")

Minted(c) ==
    {AllocRequests(c)[k].AllocationId : k \in 1..Len(AllocRequests(c))} \ {0}

\* the record of the address being released
Current(c) == call[c].out[call[c].i]

Releasing(c) ==
    IsRelease(c) /\ call[c].i >= 1 /\ call[c].i <= Len(call[c].out)

\* request p of the call is a capacity query answered with one pool that
\* has no free address
ReportsEmptyPool(c, p) ==
    /\ hist[c].log[p].call = "DescribePublicIpv4Pools"
    /\ ~hist[c].log[p].pools.err
    /\ hist[c].log[p].pools.PublicIpv4Pools = <<0>>

ByoPoolWithFallbackNone ==
    /\ vpc.PublicIpv4Pool # Nil
    /\ vpc.PublicIpv4PoolFallBackOrder = PublicIpv4PoolFallbackOrderNone

\* C1: a successful GetOrAllocateAddresses(count, role) that listed k < count
\* unassociated addresses sent exactly count - k allocate requests and
\* returns the k listed ids plus exactly the count - k ids minted for it.
C1_ReusePrecedence ==
    \A c \in Callers :
        (GoaOk(c) /\ Cardinality(ListedFree(c)) < call[c].num) =>
            /\ Len(AllocRequests(c)) = call[c].num - Cardinality(ListedFree(c))
            /\ Cardinality(Minted(c)) = call[c].num - Cardinality(ListedFree(c))
            /\ Minted(c) \cap AllListed(c) = {}
            /\ Range(call[c].eips) = ListedFree(c) \cup Minted(c)
            /\ Len(call[c].eips) = call[c].num

C1_Witness ==
    \E c \in Callers :
        /\ GoaOk(c)
        /\ Cardinality(ListedFree(c)) = 1
        /\ call[c].num = 2
        /\ Len(AllocRequests(c)) = 1

\* C2: a successful GetOrAllocateAddresses(count, role) returns exactly
\* count allocation ids, also when more than count unassociated addresses
\* of the role exist.
C2_ExactCount ==
    \A c \in Callers : GoaOk(c) => Len(call[c].eips) = call[c].num

\* the operations that are given a role
RoleScoped(c) ==
    call[c].op \in {"GetOrAllocateAddresses", "ReleaseAddressByRole"}

\* every listed address the call returned, disassociated or released is
\* tagged with the role of the call, and so is every address minted for it
OnlyOwnRole(c) ==
    /\ \A k \in 1..Len(call[c].out) :
          call[c].out[k].AllocationId \in Range(call[c].eips) \cup hist[c].touched
             => call[c].out[k].role = call[c].role
    /\ \A k \in 1..Len(AllocRequests(c)) :
          AllocRequests(c)[k].alloc.Tags.Role = call[c].role

\* C3 as stated: whatever the role string B given to GetOrAllocateAddresses
\* or ReleaseAddressByRole, the empty string included, no address tagged
\* with another role is returned, disassociated or released.
C3_RoleIsolationAnyRole ==
    \A c \in Callers : RoleScoped(c) => OnlyOwnRole(c)

\* C3 amended: role isolation holds for ReleaseAddressByRole with any role
\* and for GetOrAllocateAddresses with a non-empty role.
C3_RoleIsolation ==
    \A c \in Callers :
        (/\ RoleScoped(c)
         /\ call[c].op = "GetOrAllocateAddresses" => call[c].role # "")
            => OnlyOwnRole(c)

C3_Witness ==
    \E c \in Callers :
        /\ GoaOk(c)
        /\ call[c].role # ""
        /\ Range(call[c].eips) \cap ListedFree(c) # {}
        /\ \E id \in DOMAIN addresses :
              /\ addresses[id].cluster = ClusterName
              /\ addresses[id].role # call[c].role
              /\ addresses[id].assoc = 0

\* C4: every describe request carries the cluster filter of the service, and
\* every address a call lists, returns, disassociates or releases carries
\* the cluster tag of the service.
C4_ClusterIsolation ==
    \A c \in Callers :
        call[c].op # Nil =>
            /\ Cluster(ClusterName) \in hist[c].filters
            /\ \A k \in 1..Len(call[c].out) : call[c].out[k].cluster = ClusterName
            /\ hist[c].touched \subseteq AllListed(c)
            /\ Range(call[c].eips) \subseteq AllListed(c) \cup Minted(c)
            /\ \A k \in 1..Len(AllocRequests(c)) :
                  AllocRequests(c)[k].alloc.Tags.ClusterName = ClusterName

C4_Witness ==
    \E c \in Callers :
        /\ ReleaseOk(c)
        /\ call[c].op = "ReleaseAddresses"
        /\ hist[c].released # <<>>
        /\ \E id \in DOMAIN addresses : addresses[id].cluster # ClusterName

\* C5: with a BYO pool and fallback NONE, a capacity query that reports no
\* free address is the last request of the call: no allocate request follows
\* it and the call ends with an error and no id.
C5_PoolFallbackDisabled ==
    \A c \in Callers :
        ByoPoolWithFallbackNone =>
            \A p \in 1..Len(hist[c].log) :
                ReportsEmptyPool(c, p) =>
                    /\ p = Len(hist[c].log)
                    /\ Done(c)
                    /\ call[c].err # Nil
                    /\ call[c].eips = <<>>

C5_Witness ==
    \E c \in Callers :
        /\ ByoPoolWithFallbackNone
        /\ Len(hist[c].log) > 0
        /\ ReportsEmptyPool(c, Len(hist[c].log))
        /\ Done(c)
        /\ call[c].err # Nil

\* C6: with a BYO pool and a fallback order other than NONE, a capacity
\* query that reports one pool with no free address is followed by an
\* allocate request that names no pool.
C6_PoolFallbackAllowed ==
    \A c \in Callers :
        (/\ vpc.PublicIpv4Pool # Nil
         /\ vpc.PublicIpv4PoolFallBackOrder # PublicIpv4PoolFallbackOrderNone) =>
            \A p \in 1..Len(hist[c].log) :
                ReportsEmptyPool(c, p) =>
                    IF p = Len(hist[c].log)
                    THEN /\ call[c].pc = "AllocateAddressWithContext"
                         /\ call[c].alloc.PublicIpv4Pool = Nil
                    ELSE /\ hist[c].log[p + 1].call = "AllocateAddress"
                         /\ hist[c].log[p + 1].alloc.PublicIpv4Pool = Nil

\* C7: when the provider answers the first disassociate request of a
\* release with "association not found", the release goes on to the release
\* request instead of ending with an error.
C7_IdempotentDisassociate ==
    \A c \in Callers :
        (Releasing(c) /\ hist[c].cur.firstDis = AssociationIDNotFound) =>
            \/ call[c].pc = "ReleaseAddressWithContext"
            \/ hist[c].cur.lastRel # Nil

\* the next request of the caller is a release attempt that follows a
\* release request answered "in use"
RetriesAfterInUse(c) ==
    /\ Releasing(c)
    /\ call[c].pc = "ReleaseAddressWithContext"
    /\ hist[c].cur.lastRel = InUseIPAddress

\* the most requests one release can send: the first disassociate request
\* and, per attempt of the waiter, a release request and the attempts of
\* the inner waiter
MaxRequests == 1 + BackoffSteps * (1 + BackoffSteps)

\* C8 as stated: whether or not the record carried an association id, a
\* disassociate request is sent between a release request answered "in use"
\* and the next release attempt.
C8_DisassociateBeforeRetryAnyRecord ==
    \A c \in Callers : RetriesAfterInUse(c) => hist[c].cur.disSince >= 1

\* C8 amended: for a record that carries an association id, a disassociate
\* request is sent between a release request answered "in use" and the next
\* release attempt; a release sends at most MaxRequests requests, within
\* BackoffSteps attempts of each waiter, and it ends with an error when no
\* release request succeeded, whatever the disassociate requests answered.
C8_ReleaseRetry ==
    \A c \in Callers :
        Releasing(c) =>
            /\ (RetriesAfterInUse(c) /\ Current(c).AssociationId # 0)
                  => hist[c].cur.disSince >= 1
            /\ hist[c].cur.calls <= MaxRequests
            /\ call[c].relStep <= BackoffSteps
            /\ call[c].disStep <= BackoffSteps
            /\ (Done(c) /\ hist[c].cur.lastRel # "ok") => call[c].err # Nil

C8_Witness ==
    \E c \in Callers :
        /\ Releasing(c)
        /\ Done(c)
        /\ call[c].err # Nil
        /\ Current(c).AssociationId # 0
        /\ hist[c].cur.lastRel = InUseIPAddress
        /\ hist[c].cur.disSince >= 1
        /\ call[c].relStep = BackoffSteps
        /\ hist[c].cur.calls >= 2 + 2 * BackoffSteps

\* C9: in a bulk release over a1..an, the addresses before the current one
\* are exactly the released ones and exist no more, no request names an
\* address after the current one, and when the release of ai fails the bulk
\* release ends there with the error.
C9_BulkFailFast ==
    \A c \in Callers :
        (IsRelease(c) /\ call[c].i >= 1) =>
            /\ Range(hist[c].released) = ListedIds(c, call[c].i - 1)
            /\ Range(hist[c].released) \cap DOMAIN addresses = {}
            /\ hist[c].touched \subseteq ListedIds(c, call[c].i)
            /\ (Done(c) /\ call[c].i <= Len(call[c].out)) => call[c].err # Nil
            /\ (Done(c) /\ call[c].i > Len(call[c].out)) => call[c].err = Nil

C9_Witness ==
    \E c \in Callers :
        /\ IsRelease(c)
        /\ Done(c)
        /\ call[c].err # Nil
        /\ Len(call[c].out) = 3
        /\ call[c].i = 2
        /\ hist[c].released = <<call[c].out[1].AllocationId>>
        /\ hist[c].touched = ListedIds(c, 2)

\* C10: when ReleaseAddresses or ReleaseAddressByRole returns without error,
\* no address of its listing exists at the provider any more.
C10_TeardownPostcondition ==
    \A c \in Callers :
        ReleaseOk(c) => AllListed(c) \cap DOMAIN addresses = {}

C10_Witness ==
    \E c \in Callers :
        /\ ReleaseOk(c)
        /\ call[c].op = "ReleaseAddresses"
        /\ \E j, k \in 1..Len(call[c].out) :
              /\ call[c].out[j].AssociationId # 0
              /\ call[c].out[j].role # call[c].out[k].role

\* request p of the call is an allocation that failed: a capacity query
\* after which setByoPublicIpv4 returns an error, or an allocate request the
\* provider refused
FailedAllocation(c, p) ==
    LET e == hist[c].log[p] IN
    \/ /\ e.call = "DescribePublicIpv4Pools"
       /\ setByoPublicIpv4(NoAlloc, e.pools).err # Nil
    \/ /\ e.call = "AllocateAddress"
       /\ e.AllocationId = 0

\* C11: when an allocation inside GetOrAllocateAddresses fails (pool
\* resolution error or allocate error), the failing request is the last
\* request of the call, and the call ends with an error and an empty list.
C11_AllOrNothing ==
    \A c \in Callers :
        call[c].op = "GetOrAllocateAddresses" =>
            \A p \in 1..Len(hist[c].log) :
                FailedAllocation(c, p) =>
                    /\ p = Len(hist[c].log)
                    /\ Done(c)
                    /\ call[c].err # Nil
                    /\ call[c].eips = <<>>

C11_Witness ==
    \E c \in Callers :
        /\ call[c].op = "GetOrAllocateAddresses"
        /\ Done(c)
        /\ call[c].err # Nil
        /\ Len(hist[c].log) > 0
        /\ FailedAllocation(c, Len(hist[c].log))
        /\ Minted(c) # {}

\* GetOrAllocateAddresses handed the consumer a list whose length is not the
\* count the consumer asked for
CountMismatch(c) ==
    /\ call[c].consumer # Nil
    /\ call[c].op = "GetOrAllocateAddresses"
    /\ call[c].pc \in {"AssociateAddressWithContext", "returned"}
    /\ call[c].err = Nil
    /\ Len(call[c].eips) # call[c].num

AssociateRequests(c) ==
    SelectSeq(hist[c].log, LAMBDA e : e.call = "AssociateAddress")

\* C12: a consumer that is handed a list whose length differs from the
\* count it asked for returns a non-nil error, sends no associate request and
\* builds no subnet mapping.
C12_CountMismatchSurfaced ==
    \A c \in Callers :
        CountMismatch(c) =>
            /\ call[c].pc = "returned"
            /\ call[c].ret # Nil
            /\ AssociateRequests(c) = <<>>
            /\ call[c].input.SubnetMappings = <<>>


\* C13: an address appears at the provider only by the allocate request of
\* a call, and it carries from that step on the cluster tag of the service
\* and the role tag equal to the role argument of that call; no step changes
\* the tags of an address that exists.
C13_TaggingInvariant ==
    [][/\ \A id \in DOMAIN addresses' \ DOMAIN addresses :
             \E c \in Callers :
                /\ call[c].pc = "AllocateAddressWithContext"
                /\ call'[c].eips = Append(call[c].eips, id)
                /\ addresses'[id].cluster = ClusterName
                /\ addresses'[id].role = call[c].role
       /\ \A id \in DOMAIN addresses' \cap DOMAIN addresses :
             /\ addresses'[id].cluster = addresses[id].cluster
             /\ addresses'[id].role = addresses[id].role]_vars

C13_Witness ==
    \E c \in Callers :
        /\ GoaOk(c)
        /\ call[c].role = "A"
        /\ Cardinality(Minted(c)) = 2
        /\ \A id \in Minted(c) :
              /\ id \in DOMAIN addresses
              /\ addresses[id].cluster = ClusterName
              /\ addresses[id].role = "A"


\* the caller holds the list a successful GetOrAllocateAddresses handed it
HoldsList(c) ==
    /\ call[c].op = "GetOrAllocateAddresses"
    /\ call[c].pc \in {"done", "AssociateAddressWithContext", "returned"}
    /\ call[c].err = Nil

SharedIds(c, d) == Range(call[c].eips) \cap Range(call[d].eips)

\* C14: the lists two callers were handed share an allocation id only when
\* one of them listed while the other held an address not yet associated;
\* when each caller has associated its addresses before the other lists, the
\* lists share no id.  (The witness is the race: both calls returned
\* successfully, for the same role, with a shared id.)
C14_ReuseRace ==
    \A c, d \in Callers :
        (c # d /\ HoldsList(c) /\ HoldsList(d) /\ SharedIds(c, d) # {}) =>
            c \in hist[d].racing \/ d \in hist[c].racing

C14_Witness ==
    \E c, d \in Callers :
        /\ c # d
        /\ HoldsList(c) /\ HoldsList(d)
        /\ call[c].role = call[d].role
        /\ call[c].pc = "returned" /\ call[c].ret = Nil
        /\ call[d].pc = "returned" /\ call[d].ret = Nil
        /\ SharedIds(c, d) # {}


\* the release of the k-th listed address is under way
ReleasingAt(c, k) == Releasing(c) /\ call[c].i = k /\ ~Done(c)

\* C15: the release of one address sends at most MaxRequests requests to
\* the provider, the disassociate attempts inside each release attempt
\* included, and it ends (with success, then the loop is at the next address,
\* or with an error), whatever the provider answers.
C15_BoundedRetry ==
    /\ [](\A c \in Callers : Releasing(c) => hist[c].cur.calls <= MaxRequests)
    /\ \A c \in Callers : \A k \in 1..MaxIds :
          ReleasingAt(c, k) ~> (Done(c) \/ call[c].i > k)

C15_Witness ==
    \E c \in Callers :
        /\ Releasing(c)
        /\ Done(c)
        /\ call[c].err # Nil
        /\ hist[c].cur.calls = MaxRequests
        /\ hist[c].cur.lastRel \in releaseRetryable


\* C16: a successful GetOrAllocateAddresses(n, role) that listed no address
\* for (cluster, role) sent exactly n allocate requests, each answered with a
\* fresh id, and returns these n pairwise distinct ids.
C16_ExactCountEmptyDirectory ==
    \A c \in Callers :
        (GoaOk(c) /\ call[c].out = <<>>) =>
            /\ Len(AllocRequests(c)) = call[c].num
            /\ Len(call[c].eips) = call[c].num
            /\ Cardinality(Range(call[c].eips)) = call[c].num
            /\ Range(call[c].eips) = Minted(c)
            /\ \A k \in 1..Len(call[c].eips) :
                  call[c].eips[k] = AllocRequests(c)[k].AllocationId

C16_Witness ==
    \E c \in Callers :
        /\ GoaOk(c)
        /\ call[c].out = <<>>
        /\ call[c].num = MaxNum
        /\ call[c].role = "A"
        /\ Cardinality(Range(call[c].eips)) = MaxNum


Max(a, b) == IF a >= b THEN a ELSE b

\* a call of a sequence of GetOrAllocateAddresses calls
InSeq(c) == call[c].op = "GetOrAllocateAddresses" /\ call[c].consumer = Nil

\* a call that follows a successful call with the same arguments sends no
\* allocate request and, when it succeeds, returns the same ids
SecondCallReuses(c) ==
    (hist[c].seq.again /\ hist[c].seq.prevErr = Nil) =>
        /\ AllocRequests(c) = <<>>
        /\ GoaOk(c) => call[c].eips = hist[c].seq.prevEips

\* C17 as stated: over a sequence of calls with the same count and role,
\* the number of addresses tagged with the role never exceeds max(k0, count),
\* k0 being the number of addresses tagged with the role before the first
\* call.
C17_NoAccumulationAnyAddress ==
    \A c \in Callers :
        InSeq(c) =>
            /\ Cardinality(OfRole(call[c].role))
                  <= Max(hist[c].seq.assoc0 + hist[c].seq.free0, call[c].num)
            /\ SecondCallReuses(c)

\* C17 amended: the number of addresses tagged with the role never exceeds
\* a0 + max(f0, count), a0 and f0 being the numbers of associated and of
\* unassociated addresses tagged with the role before the first call.
C17_NoAccumulation ==
    \A c \in Callers :
        InSeq(c) =>
            /\ Cardinality(OfRole(call[c].role))
                  <= hist[c].seq.assoc0 + Max(hist[c].seq.free0, call[c].num)
            /\ SecondCallReuses(c)

C17_Witness ==
    \E c \in Callers :
        /\ InSeq(c)
        /\ GoaOk(c)
        /\ hist[c].seq.again
        /\ hist[c].seq.prevErr # Nil
        /\ hist[c].seq.assoc0 = 1
        /\ call[c].num = 2
        /\ Cardinality(OfRole(call[c].role)) = 3


\* a release request for the current address was sent or is the next request
ReleaseRequested(c) ==
    call[c].pc = "ReleaseAddressWithContext" \/ hist[c].cur.lastRel # Nil

\* C18: for a record that carries an association id, a release request is
\* sent only after the first disassociate request was answered with
\* success; for a record without association id the first request is the
\* release request and no disassociate request is sent.
C18_PerAddressOrdering ==
    \A c \in Callers :
        Releasing(c) =>
            /\ (Current(c).AssociationId # 0 /\ ReleaseRequested(c))
                  => hist[c].cur.firstDis = "ok"
            /\ (Current(c).AssociationId = 0 /\ hist[c].cur.calls >= 1)
                  => /\ hist[c].cur.lastRel # Nil
                     /\ hist[c].cur.firstDis = Nil
                     /\ hist[c].cur.disSince = 0

C18_Witness ==
    \E c \in Callers :
        /\ Releasing(c)
        /\ Current(c).AssociationId # 0
        /\ hist[c].cur.firstDis = "ok"
        /\ hist[c].cur.lastRel = InternalError
        /\ \E k \in 1..Len(call[c].out) : call[c].out[k].AssociationId = 0


\* C19: when the first disassociate request of a release is answered with
\* an auth failure, the release does not end after that single attempt: the
\* request is retried.
C19_DisassociatePhaseRetry ==
    \A c \in Callers :
        (Releasing(c) /\ hist[c].cur.firstDis = AuthFailure /\ Done(c)) =>
            hist[c].cur.calls > 1

\* C20: a release request answered with an error code other than auth
\* failure or "in use" is followed by no other release attempt and the
\* release ends with an error; a release request answered with auth failure
\* or "in use" is followed by another attempt unless the attempts of the
\* waiter are exhausted.
C20_ReleaseErrorClassification ==
    \A c \in Callers :
        (Releasing(c) /\ hist[c].cur.lastRel \notin {Nil, "ok"}) =>
            /\ call[c].pc \in {"disassociateAddress", "ReleaseAddressWithContext", "done"}
            /\ Done(c) => call[c].err # Nil
            /\ IF hist[c].cur.lastRel \in {AuthFailure, InUseIPAddress}
               THEN Done(c) => call[c].relStep = BackoffSteps
               ELSE call[c].pc # "ReleaseAddressWithContext"

C20_Witness ==
    \E c \in Callers :
        /\ Releasing(c)
        /\ Current(c).AssociationId = 0
        /\ hist[c].cur.lastRel = InUseIPAddress
        /\ call[c].pc = "ReleaseAddressWithContext"
        /\ call[c].relStep = BackoffSteps


\* request p of the call is a capacity query answered with zero or with more
\* than one pool description
PoolCountError(c, p) ==
    /\ hist[c].log[p].call = "DescribePublicIpv4Pools"
    /\ ~hist[c].log[p].pools.err
    /\ Len(hist[c].log[p].pools.PublicIpv4Pools) # 1

\* the error of an allocation whose capacity query reports a single pool
\* with no free address
ExhaustedPoolError ==
    setByoPublicIpv4(NoAlloc, [err |-> FALSE, PublicIpv4Pools |-> <<0>>]).err

\* C21: a capacity query answered with zero or several pool descriptions
\* ends the call with an error that differs from the error of an allocation
\* whose pool reports fewer free addresses than requested.
C21_PoolCountErrorDistinct ==
    \A c \in Callers :
        \A p \in 1..Len(hist[c].log) :
            PoolCountError(c, p) =>
                /\ p = Len(hist[c].log)
                /\ Done(c)
                /\ call[c].err # Nil
                /\ call[c].err # ExhaustedPoolError


\* request p of the call is a capacity query answered with one pool that
\* has at least one free address
ReportsFreeAddress(c, p) ==
    /\ hist[c].log[p].call = "DescribePublicIpv4Pools"
    /\ ~hist[c].log[p].pools.err
    /\ Len(hist[c].log[p].pools.PublicIpv4Pools) = 1
    /\ hist[c].log[p].pools.PublicIpv4Pools[1] >= 1

\* the request that follows request p of the call is an allocate request
\* that names pool
AllocateFollows(c, p, pool) ==
    IF p = Len(hist[c].log)
    THEN /\ call[c].pc = "AllocateAddressWithContext"
         /\ call[c].alloc.PublicIpv4Pool = pool
    ELSE /\ hist[c].log[p + 1].call = "AllocateAddress"
         /\ hist[c].log[p + 1].alloc.PublicIpv4Pool = pool

\* C22: without BYO pool a call sends no capacity query and its allocate
\* requests name no pool; with a BYO pool, a capacity query answered with
\* one pool that has a free address is followed by an allocate request that
\* names the BYO pool, whatever the fallback policy.
C22_PoolSelection ==
    \A c \in Callers :
        call[c].op = "GetOrAllocateAddresses" =>
            IF vpc.PublicIpv4Pool = Nil
            THEN /\ \A p \in 1..Len(hist[c].log) :
                       /\ hist[c].log[p].call = "AllocateAddress"
                       /\ hist[c].log[p].alloc.PublicIpv4Pool = Nil
                 /\ call[c].pc = "AllocateAddressWithContext"
                       => call[c].alloc.PublicIpv4Pool = Nil
            ELSE \A p \in 1..Len(hist[c].log) :
                    ReportsFreeAddress(c, p) =>
                        AllocateFollows(c, p, vpc.PublicIpv4Pool)

C22_Witness ==
    \E c \in Callers :
        /\ GoaOk(c)
        /\ vpc.PublicIpv4Pool = PoolId
        /\ vpc.PublicIpv4PoolFallBackOrder = PublicIpv4PoolFallbackOrderAmazonPool
        /\ Len(hist[c].log) = 2
        /\ ReportsFreeAddress(c, 1)
        /\ hist[c].log[2].alloc.PublicIpv4Pool = PoolId
        /\ hist[c].log[2].AllocationId \in DOMAIN addresses
        /\ addresses[hist[c].log[2].AllocationId].pool = PoolId


\* C23: with a BYO pool, every allocate request of a call is immediately
\* preceded by a capacity query of its own; and when, under fallback NONE,
\* the call ends at a capacity query that reports no free address, it has
\* created exactly the f addresses the pool held at its first query, all from
\* the BYO pool, and these exist, unassociated and tagged with the role.
C23_PoolResolutionPerAllocation ==
    \A c \in Callers :
        (call[c].op = "GetOrAllocateAddresses" /\ vpc.PublicIpv4Pool # Nil) =>
            /\ \A p \in 1..Len(hist[c].log) :
                  IF hist[c].log[p].call = "AllocateAddress"
                  THEN p > 1 /\ hist[c].log[p - 1].call = "DescribePublicIpv4Pools"
                  ELSE p < Len(hist[c].log)
                          => hist[c].log[p + 1].call = "AllocateAddress"
            /\ (/\ ByoPoolWithFallbackNone
                /\ Len(hist[c].log) > 0
                /\ ReportsEmptyPool(c, Len(hist[c].log))) =>
                  /\ Done(c) /\ call[c].err # Nil
                  /\ Cardinality(Minted(c)) = hist[c].log[1].pools.PublicIpv4Pools[1]
                  /\ Len(AllocRequests(c)) = Cardinality(Minted(c))
                  /\ \A id \in Minted(c) :
                        /\ id \in DOMAIN addresses
                        /\ addresses[id].pool = vpc.PublicIpv4Pool
                        /\ addresses[id].assoc = 0
                        /\ addresses[id].cluster = ClusterName
                        /\ addresses[id].role = call[c].role

C23_Witness ==
    \E c \in Callers :
        /\ ByoPoolWithFallbackNone
        /\ Done(c) /\ call[c].err # Nil
        /\ call[c].num = 2
        /\ call[c].out = <<>>
        /\ Len(hist[c].log) = 3
        /\ ReportsEmptyPool(c, 3)
        /\ hist[c].log[1].pools.PublicIpv4Pools = <<1>>
        /\ Cardinality(Minted(c)) = 1
        /\ \A id \in Minted(c) : id \in DOMAIN addresses /\ addresses[id].assoc = 0


\* the listed addresses that carry an association id
ListedAssociated(c) == AllListed(c) \ ListedFree(c)

\* C24: every id a successful GetOrAllocateAddresses returns is the id of an
\* address listed without association id or of an address minted by an
\* allocate request of the same call; no address listed with an association
\* id is returned.
C24_OnlyFreeOrFresh ==
    \A c \in Callers :
        GoaOk(c) =>
            /\ Range(call[c].eips) \subseteq ListedFree(c) \cup Minted(c)
            /\ Range(call[c].eips) \cap ListedAssociated(c) = {}

C24_Witness ==
    \E c \in Callers :
        /\ GoaOk(c)
        /\ ListedAssociated(c) # {}
        /\ ListedFree(c) # {}
        /\ Minted(c) # {}
        /\ Len(call[c].eips) = 2


\* the requests of a call that change nothing of an address that exists
ReadsOrCreates(c) ==
    /\ hist[c].touched = {}
    /\ hist[c].released = <<>>
    /\ \A p \in 1..Len(hist[c].log) :
          hist[c].log[p].call \in {"DescribePublicIpv4Pools", "AllocateAddress"}

\* C25: no step of GetOrAllocateAddresses, of a call that succeeds or of one
\* that fails, removes an address or changes its association or its tags,
\* and the call sends no associate, disassociate or release request; the only
\* change at the provider is the address an allocate request creates.
C25_GetOrAllocateFrame ==
    [][/\ \A id \in DOMAIN addresses :
             id \in DOMAIN addresses' /\ addresses'[id] = addresses[id]
       /\ DOMAIN addresses' \ DOMAIN addresses \subseteq {nextId}
       /\ \A c \in Callers : ReadsOrCreates(c)']_vars

C25_Witness ==
    \E c \in Callers :
        /\ call[c].op = "GetOrAllocateAddresses"
        /\ Done(c) /\ call[c].err # Nil
        /\ ListedAssociated(c) # {}
        /\ Minted(c) # {}
        /\ Minted(c) \subseteq DOMAIN addresses
        /\ \A id \in ListedAssociated(c) :
              id \in DOMAIN addresses /\ addresses[id].assoc # 0


\* no call has ended with an error and no request of the release under way
\* was answered with an error
NoErrorAnswer ==
    \A c \in Callers :
        /\ call[c].err = Nil
        /\ hist[c].cur.firstDis \in {Nil, "ok"}
        /\ hist[c].cur.lastRel \in {Nil, "ok"}

\* the addresses that match the filter of ReleaseAddresses
OfCluster == {id \in DOMAIN addresses : addresses[id].cluster = ClusterName}

\* ReleaseAddresses has returned success and no address matches its filter
TornDown ==
    \E c \in Callers :
        /\ ReleaseOk(c)
        /\ call[c].op = "ReleaseAddresses"
        /\ OfCluster = {}

\* C26: the addresses released by a bulk release, also by one that failed
\* part-way, exist no more and are never listed by a later invocation; and if
\* from some point on the provider answers no request with an error, a
\* caller that re-invokes ReleaseAddresses each time it has returned
\* eventually gets success with no address of the cluster left.
C26_BulkReleaseConverges ==
    /\ [](\A c \in Callers :
             LET gone == Range(hist[c].seq.prevEips) \cup Range(hist[c].released)
             IN IsRelease(c) =>
                   /\ gone \cap DOMAIN addresses = {}
                   /\ Range(hist[c].seq.prevEips) \cap AllListed(c) = {})
    /\ <>[]NoErrorAnswer => <>TornDown

C26_Witness ==
    \E c \in Callers :
        /\ ReleaseOk(c)
        /\ call[c].op = "ReleaseAddresses"
        /\ hist[c].seq.again
        /\ hist[c].seq.prevErr # Nil
        /\ hist[c].seq.prevEips # <<>>
        /\ hist[c].released # <<>>
        /\ OfCluster = {}



\* the input stops the load balancer helper at one of its guards
Guarded(input) ==
    \/ vpc.PublicIpv4Pool = Nil
    \/ input.Type # LoadBalancerTypeEnumNetwork
    \/ Len(input.SubnetMappings) > 0

\* C27: when no BYO pool is configured, or the load balancer type is not
\* network, or the input already carries subnet mappings, the load balancer
\* helper returns at once, without a call of GetOrAllocateAddresses (no
\* request is sent, no address changes) and with the input as it was given;
\* it returns success in the first case and an error in the other two.
C27_HelperGuards ==
    [][\A c \in Callers, input \in Inputs, role \in Roles :
          (allocatedPublicIpv4AddressFromByoIPPool(c, input, role) /\ Guarded(input))
          => /\ call'[c].pc = "returned"
             /\ call'[c].op = Nil
             /\ hist'[c].filters = {}
             /\ hist'[c].log = <<>>
             /\ call'[c].input = input
             /\ addresses' = addresses
             /\ (call'[c].ret = Nil) <=> (vpc.PublicIpv4Pool = Nil)]_vars

C27_Witness ==
    \E c \in Callers :
        /\ call[c].consumer = "allocatedPublicIpv4AddressFromByoIPPool"
        /\ call[c].pc = "returned"
        /\ vpc.PublicIpv4Pool # Nil
        /\ call[c].input.Type # LoadBalancerTypeEnumNetwork
        /\ call[c].input.SubnetMappings = <<>>
        /\ Len(call[c].input.Subnets) > 0
        /\ call[c].op = Nil
        /\ call[c].ret # Nil


IsLBHelper(l) == l.consumer = "allocatedPublicIpv4AddressFromByoIPPool"

\* C28: when GetOrAllocateAddresses hands the load balancer helper exactly
\* one id per subnet, the helper returns success with one subnet mapping per
\* subnet of the input, in the order of the subnets, the i-th mapping with
\* the i-th subnet and the i-th id, and with an empty subnet list; and when
\* the helper returns an error, at a guard or after the call, the subnets
\* and the subnet mappings of the input are as they were given.
C28_HelperResult ==
    [][\A c \in Callers :
          /\ ( /\ allocatedPublicIpv4AddressFromByoIPPool_Mappings(c)
               /\ call[c].err = Nil
               /\ Len(call[c].eips) = Len(call[c].input.Subnets) )
             => /\ call'[c].ret = Nil
                /\ call'[c].input.Subnets = <<>>
                /\ Len(call'[c].input.SubnetMappings) = Len(call[c].input.Subnets)
                /\ \A k \in 1..Len(call[c].input.Subnets) :
                      /\ call'[c].input.SubnetMappings[k].SubnetId
                            = call[c].input.Subnets[k]
                      /\ call'[c].input.SubnetMappings[k].AllocationId
                            = call[c].eips[k]
          /\ ( /\ allocatedPublicIpv4AddressFromByoIPPool_Mappings(c)
               /\ call'[c].ret # Nil )
             => call'[c].input = call[c].input
          /\ \A input \in Inputs, role \in Roles :
                ( /\ allocatedPublicIpv4AddressFromByoIPPool(c, input, role)
                  /\ call'[c].pc = "returned"
                  /\ call'[c].ret # Nil )
                => call'[c].input = input
          /\ (IsLBHelper(call[c]) /\ IsLBHelper(call'[c])
                /\ call[c].pc # "done")
             => call'[c].input = call[c].input]_vars

C28_Witness ==
    \E c \in Callers :
        /\ IsLBHelper(call[c])
        /\ call[c].pc = "returned"
        /\ call[c].ret = Nil
        /\ vpc.PublicIpv4Pool # Nil
        /\ call[c].input.Subnets = <<>>
        /\ Len(call[c].input.SubnetMappings) = 2
        /\ call[c].input.SubnetMappings[1].AllocationId
              # call[c].input.SubnetMappings[2].AllocationId


IsReconcile(c) == call[c].consumer = "getAndAssociateAddressesToInstance"

\* the address the previous reconcile was handed is associated
HoldsAssociated(c) ==
    /\ hist[c].seq.again
    /\ hist[c].seq.prevErr = Nil
    /\ Len(hist[c].seq.prevEips) = 1
    /\ hist[c].seq.prevEips[1] \in DOMAIN addresses
    /\ addresses[hist[c].seq.prevEips[1]].assoc # 0

\* C29: after successive successful calls of the instance reconcile for one
\* instance, with no release in between, at most one address with the role
\* of the instance exists; and a call for an instance whose address of the
\* previous call is associated sends no allocate request.
C29_ReconcileRepeatable ==
    \A c \in Callers :
        (IsReconcile(c) /\ hist[c].seq.prevErr = Nil) =>
            /\ (call[c].pc = "returned" /\ call[c].ret = Nil)
                  => Cardinality(OfRole(call[c].role)) <= 1
            /\ HoldsAssociated(c)
                  => \A p \in 1..Len(hist[c].log) :
                        hist[c].log[p].call # "AllocateAddress"


\* every allocate request caller c has built or sent names the BYO pool
NamesByoPool(c) ==
    /\ call[c].pc = "AllocateAddressWithContext"
          => call[c].alloc.PublicIpv4Pool = PoolId
    /\ \A p \in 1..Len(hist[c].log) :
          hist[c].log[p].call = "AllocateAddress"
             => hist[c].log[p].alloc.PublicIpv4Pool = PoolId

\* C30: with a BYO pool and fallback policy none, whatever the interleaving
\* of the concurrent callers and of the changes of the pool's free count,
\* every allocate request names the BYO pool and every address created
\* comes from it.
C30_NoDefaultPoolUnderNone ==
    [][ByoPoolWithFallbackNone =>
          /\ \A c \in Callers : NamesByoPool(c)'
          /\ \A id \in DOMAIN addresses' \ DOMAIN addresses :
                addresses'[id].pool = PoolId]_vars

\* an allocate request that was sent after the pool reported a free address
\* and failed, the pool being empty by then
C30_Witness ==
    /\ ByoPoolWithFallbackNone
    /\ poolFree = 0
    /\ nextId <= MaxIds
    /\ \E c \in Callers :
          /\ Len(hist[c].log) >= 2
          /\ LET n == Len(hist[c].log) IN
             /\ hist[c].log[n].call = "AllocateAddress"
             /\ hist[c].log[n].AllocationId = 0
             /\ hist[c].log[n].alloc.PublicIpv4Pool = PoolId
             /\ hist[c].log[n - 1].call = "DescribePublicIpv4Pools"
             /\ hist[c].log[n - 1].pools.PublicIpv4Pools = <<1>>

====
